---- MODULE Spec2Model ----
(***************************************************************************)
(* A model of nba/fetcher/video_fetcher.py: the request configuration      *)
(* (VideoRequestConfig), the query-parameter builder (VideoRequestParams)  *)
(* and the memoized, file-cached fetch (VideoFetcher.get_game_videos_raw). *)
(*                                                                         *)
(* Python values are tagged records [t, i, s]: t is the type, i the        *)
(* integer (or, for a list, its length), s the text as a sequence of       *)
(* one-character strings.                                                  *)
(***************************************************************************)
EXTENDS Integers, Sequences, FiniteSets, TLC

VARIABLES
    req,        \* the VideoRequestParams instance under construction/build
    built,      \* what VideoRequestParams.build() gave for req
    keyArgs,    \* the arguments the cache key was last computed for
    keyOut,     \* the cache key computed for keyArgs
    fs,         \* the filesystem: path -> "dir" | "file" | "absent"
    cfgIn,      \* the arguments of the last VideoRequestConfig(...) call
    cfgOut,     \* its outcome: the exception raised, or the configuration
    memo,       \* lru_cache of get_game_videos_raw: entries, least recent first
    file,       \* videos_url.json: cache key -> entry
    now,        \* wall clock, seconds
    called,     \* argument tuples get_game_videos_raw was called with so far
    scanned,    \* how many games of the scan have been fetched
    failed,     \* tuples memoized as None because their fetch raised
    sinceClear, \* tuples memoized since the memo was last cleared
    last        \* the fetcher's last operation and what it did

vars == <<req, built, keyArgs, keyOut, fs, cfgIn, cfgOut, memo, file, now,
          called, scanned, failed, sinceClear, last>>

-----------------------------------------------------------------------------
(* Python values *)

PyNone == [t |-> "none", i |-> 0, s |-> <<>>]

PyInt(n) == [t |-> "int", i |-> n, s |-> <<>>]

PyStr(chars) == [t |-> "str", i |-> 0, s |-> chars]

\* a list of n elements: the one unhashable kind of value modelled
PyList(n) == [t |-> "list", i |-> n, s |-> <<>>]

\* a timedelta of n seconds
PyTimedelta(n) == [t |-> "timedelta", i |-> n, s |-> <<>>]

\* bool(v), as `if v` and filter(None, ...) test it
Truthy(v) ==
    CASE v.t = "none" -> FALSE
      [] v.t = "int" -> v.i # 0
      [] v.t = "list" -> v.i # 0
      [] OTHER -> v.s # <<>>

\* hash(v) succeeds
Hashable(v) == v.t # "list"

DigitChars == <<"0", "1", "2", "3", "4", "5", "6", "7", "8", "9">>

IsDigit(c) == \E d \in 1..10 : DigitChars[d] = c

DigitOf(c) == (CHOOSE d \in 1..10 : DigitChars[d] = c) - 1

RECURSIVE StrOfNat(_)
StrOfNat(n) ==
    IF n < 10 THEN <<DigitChars[n + 1]>>
    ELSE StrOfNat(n \div 10) \o <<DigitChars[(n % 10) + 1]>>

RECURSIVE NatOfDigits(_)
NatOfDigits(ds) ==
    IF ds = <<>> THEN 0
    ELSE 10 * NatOfDigits(SubSeq(ds, 1, Len(ds) - 1)) + DigitOf(ds[Len(ds)])

\* str(v), for the kinds of value an id argument takes
StrOf(v) ==
    CASE v.t = "int" ->
            IF v.i < 0 THEN <<"-">> \o StrOfNat(0 - v.i) ELSE StrOfNat(v.i)
      [] v.t = "none" -> <<"N", "o", "n", "e">>
      [] OTHER -> v.s

\* int(text) of a str without blanks or underscores: an optional sign and
\* at least one digit, anything else is a ValueError
IntOfStr(chars) ==
    LET signed == chars # <<>> /\ chars[1] \in {"-", "+"}
        ds == IF signed THEN Tail(chars) ELSE chars
    IN  IF ds # <<>> /\ \A k \in 1..Len(ds) : IsDigit(ds[k])
        THEN [exc |-> "none",
              val |-> IF signed /\ chars[1] = "-" THEN 0 - NatOfDigits(ds)
                      ELSE NatOfDigits(ds)]
        ELSE [exc |-> "ValueError", val |-> 0]

-----------------------------------------------------------------------------
(* ContextMeasure: a str-valued Enum *)

Enum(chars) == [t |-> "enum", i |-> 0, s |-> chars]

FG3M == Enum(<<"F", "G", "3", "M">>)

FG3A == Enum(<<"F", "G", "3", "A">>)

FGM == Enum(<<"F", "G", "M">>)

FGA == Enum(<<"F", "G", "A">>)

OREB == Enum(<<"O", "R", "E", "B">>)

DREB == Enum(<<"D", "R", "E", "B">>)

REB == Enum(<<"R", "E", "B">>)

AST == Enum(<<"A", "S", "T">>)

STL == Enum(<<"S", "T", "L">>)

BLK == Enum(<<"B", "L", "K">>)

TOV == Enum(<<"T", "O", "V">>)

ContextMeasure == {FG3M, FG3A, FGM, FGA, OREB, DREB, REB, AST, STL, BLK, TOV}

\* v.value: only an Enum member has the attribute
ValueOf(v) ==
    IF v.t = "enum" THEN [exc |-> "none", val |-> PyStr(v.s)]
    ELSE [exc |-> "AttributeError", val |-> PyNone]

-----------------------------------------------------------------------------
(* VideoRequestParams *)

EmptyStr == PyStr(<<>>)

DefaultSeason == PyStr(<<"2", "0", "2", "4", "-", "2", "5">>)

DefaultSeasonType ==
    PyStr(<<"R", "e", "g", "u", "l", "a", "r", " ", "S", "e", "a", "s", "o", "n">>)

VideoRequestParams(game_id, player_id, team_id, context_measure, season, season_type) ==
    [game_id |-> game_id, player_id |-> player_id, team_id |-> team_id,
     context_measure |-> context_measure, season |-> season,
     season_type |-> season_type]

\* a variant of IntOrZero that passes the id through unconverted
IntOrZeroUnconverted(x) ==
    IF Truthy(x) THEN [exc |-> "none", val |-> x]
    ELSE [exc |-> "none", val |-> PyInt(0)]

\* `int(x) if x else 0`
IntOrZero(x) ==
    IF Truthy(x)
    THEN LET n == IntOfStr(StrOf(x))
         IN  [exc |-> n.exc, val |-> PyInt(n.val)]
    ELSE [exc |-> "none", val |-> PyInt(0)]

\* a variant of BuildTeamID that reads the other id
BuildTeamIDFromPlayer(self) == IntOrZero(self.player_id)

\* the value of 'TeamID'
BuildTeamID(self) == IntOrZero(self.team_id)

\* the value of 'PlayerID'
BuildPlayerID(self) == IntOrZero(self.player_id)

BuildDict(self, team, player, measure) ==
    [LeagueID |-> PyStr(<<"0", "0">>),
     Season |-> self.season,
     SeasonType |-> self.season_type,
     TeamID |-> team,
     PlayerID |-> player,
     GameID |-> self.game_id,
     ContextMeasure |-> measure,
     Outcome |-> EmptyStr,
     Location |-> EmptyStr,
     Month |-> PyInt(0),
     SeasonSegment |-> EmptyStr,
     DateFrom |-> EmptyStr,
     DateTo |-> EmptyStr,
     OpponentTeamID |-> PyInt(0),
     VsConference |-> EmptyStr,
     VsDivision |-> EmptyStr,
     Position |-> EmptyStr,
     RookieYear |-> EmptyStr,
     GameSegment |-> EmptyStr,
     Period |-> PyInt(0),
     LastNGames |-> PyInt(0),
     ClutchTime |-> EmptyStr,
     AheadBehind |-> EmptyStr,
     PointDiff |-> EmptyStr,
     RangeType |-> PyInt(0),
     StartPeriod |-> PyInt(0),
     EndPeriod |-> PyInt(0),
     StartRange |-> PyInt(0),
     EndRange |-> PyInt(28800),
     ContextFilter |-> EmptyStr,
     OppPlayerID |-> EmptyStr]

NoDict == [LeagueID |-> PyNone]

\* VideoRequestParams.build(): the dict, or the first exception met in the
\* order the dict display evaluates its values
Build(self) ==
    LET team == BuildTeamID(self)
        player == BuildPlayerID(self)
        measure == ValueOf(self.context_measure)
    IN  CASE team.exc # "none" -> [exc |-> team.exc, val |-> NoDict]
          [] player.exc # "none" -> [exc |-> player.exc, val |-> NoDict]
          [] measure.exc # "none" -> [exc |-> measure.exc, val |-> NoDict]
          [] OTHER -> [exc |-> "none",
                       val |-> BuildDict(self, team.val, player.val, measure.val)]

-----------------------------------------------------------------------------
(* The inputs of the builder *)

S_video1 == <<"v", "i", "d", "e", "o", "1">>

S_201939 == <<"2", "0", "1", "9", "3", "9">>

GameIds == {PyStr(S_video1), PyStr(<<"0", "0", "2", "2">>)}

\* Optional[str] ids: absent, empty, numeric (one with leading zeros), and a
\* non-numeric one
S_007 == <<"0", "0", "7">>

IdStrs == {PyNone, EmptyStr, PyStr(S_201939), PyStr(S_007), PyStr(<<"x">>)}

Measures == {FGM, FG3M, TOV}

Seasons == {DefaultSeason, PyStr(<<"2", "0", "2", "3", "-", "2", "4">>)}

SeasonTypes == {DefaultSeasonType, PyStr(<<"P", "l", "a", "y", "o", "f", "f", "s">>)}

NoReq == VideoRequestParams(PyNone, PyNone, PyNone, PyNone, PyNone, PyNone)

NotBuilt == [exc |-> "unbuilt", val |-> NoDict]

\* VideoRequestParams(...): the dataclass constructor
NewParams ==
    \E g \in GameIds, p \in IdStrs, t \in IdStrs, m \in Measures \cup {PyNone},
       s \in Seasons, st \in SeasonTypes :
        /\ req' = VideoRequestParams(g, p, t, m, s, st)
        /\ built' = NotBuilt
        /\ UNCHANGED <<keyArgs, keyOut, fs, cfgIn, cfgOut, memo, file, now,
                       called, scanned, failed, sinceClear, last>>

\* req.build()
DoBuild ==
    /\ req # NoReq
    /\ built' = Build(req)
    /\ UNCHANGED <<req, keyArgs, keyOut, fs, cfgIn, cfgOut, memo, file, now,
                   called, scanned, failed, sinceClear, last>>

NextBuild == NewParams \/ DoBuild

-----------------------------------------------------------------------------
(* VideoFetcher.get_game_videos_raw: the cache key *)

S_video == <<"v", "i", "d", "e", "o">>

\* the call's arguments, as the lru_cache wrapper and the body see them
CallArgs(game_id, context_measure, player_id, team_id) ==
    [game_id |-> game_id, context_measure |-> context_measure,
     player_id |-> player_id, team_id |-> team_id]

\* `str(x) if x else None`
StrOrNone(x) == IF Truthy(x) THEN PyStr(StrOf(x)) ELSE PyNone

\* a variant of CacheKeyParts that tags each id with its role
CacheKeyPartsTagged(a) ==
    SelectSeq(<<PyStr(S_video),
                a.game_id,
                IF Truthy(a.player_id)
                THEN PyStr(<<"p">> \o StrOf(a.player_id)) ELSE PyStr(<<"p">>),
                IF Truthy(a.team_id)
                THEN PyStr(<<"t">> \o StrOf(a.team_id)) ELSE PyStr(<<"t">>),
                ValueOf(a.context_measure).val>>, Truthy)

\* cache_key_parts: filter(None, [...]) keeps the truthy parts
CacheKeyParts(a) ==
    SelectSeq(<<PyStr(S_video),
                a.game_id,
                StrOrNone(a.player_id),
                StrOrNone(a.team_id),
                ValueOf(a.context_measure).val>>, Truthy)

RECURSIVE Join(_, _)
\* sep.join(parts), parts being str values
Join(sep, parts) ==
    IF parts = <<>> THEN <<>>
    ELSE IF Len(parts) = 1 THEN parts[1].s
    ELSE parts[1].s \o sep \o Join(sep, Tail(parts))

\* cache_config['key'], or the exception met on the way to it
CacheKey(a) ==
    IF ValueOf(a.context_measure).exc # "none"
    THEN [exc |-> ValueOf(a.context_measure).exc, val |-> <<>>]
    ELSE IF \E k \in 1..Len(CacheKeyParts(a)) : CacheKeyParts(a)[k].t # "str"
    THEN [exc |-> "TypeError", val |-> <<>>]
    ELSE [exc |-> "none", val |-> Join(<<"_">>, CacheKeyParts(a))]

-----------------------------------------------------------------------------
(* The transport (BaseNBAFetcher.fetch_data) and the upstream service *)

\* VideoRequestConfig.CACHE_DURATION's default, in seconds
DefaultCacheSeconds == 3600

\* cache_config['interval'] under the class's default request_config
Interval == DefaultCacheSeconds

\* what the environment does to one call: all goes well, the mkdir of the
\* cache directory fails, the fetch fails with an Exception, or a
\* KeyboardInterrupt (a BaseException) arrives during the fetch
Outcomes == {"ok", "mkdir_fails", "fetch_fails", "interrupted"}

\* the service's answer: it depends on the query and on when it is asked
Response(params, t) ==
    [q |-> <<params.GameID, params.PlayerID, params.TeamID, params.ContextMeasure>>,
     at |-> t]

NoBody == [q |-> <<>>, at |-> 0]

\* the entry of `key` in the cache file is there and not older than ttl
FileFresh(key, ttl) == key \in DOMAIN file /\ now - file[key].ts <= ttl

\* fetch_data(url, params, cache_config): a fresh entry of the key is
\* returned as it is; otherwise the network is called, the answer stored
\* under the key and returned, or the failure raised
FetchData(params, key, ttl, o) ==
    IF FileFresh(key, ttl)
    THEN [exc |-> "none", val |-> file[key].body, net |-> FALSE, file |-> file]
    ELSE CASE o = "fetch_fails" ->
                [exc |-> "Exception", val |-> NoBody, net |-> TRUE, file |-> file]
           [] o = "interrupted" ->
                [exc |-> "KeyboardInterrupt", val |-> NoBody, net |-> TRUE, file |-> file]
           [] OTHER ->
                [exc |-> "none", val |-> Response(params, now), net |-> TRUE,
                 file |-> [k \in DOMAIN file \cup {key} |->
                              IF k = key THEN [ts |-> now, body |-> Response(params, now)]
                              ELSE file[k]]]

-----------------------------------------------------------------------------
(* VideoFetcher.get_game_videos_raw *)

\* what a call did: exc is the exception the caller saw ("none": it
\* returned), val the value returned (isNone: None), fetched whether
\* fetch_data was called, and then with which key, net whether the network
\* was called, logged the exception logger.error reported ("none": no
\* error was logged), file the cache file afterwards
Did(exc, isNone, val, fetched, key, net, logged, newFile) ==
    [exc |-> exc, isNone |-> isNone, val |-> val, fetched |-> fetched,
     key |-> key, net |-> net, logged |-> logged, file |-> newFile]

\* an exception met before the fetch, caught and logged
CaughtEarly(e) == Did("none", TRUE, NoBody, FALSE, <<>>, FALSE, e, file)

\* a variant of Except that lets the fetch's Exception through
ExceptNothing(f, key) ==
    IF f.exc = "none"
    THEN Did("none", FALSE, f.val, TRUE, key, f.net, "none", f.file)
    ELSE Did(f.exc, TRUE, NoBody, TRUE, key, f.net, "none", f.file)

\* `except Exception`: an Exception of the fetch is logged and becomes
\* None, a BaseException that is no Exception goes on to the caller
Except(f, key) ==
    CASE f.exc = "none" ->
            Did("none", FALSE, f.val, TRUE, key, f.net, "none", f.file)
      [] f.exc = "KeyboardInterrupt" ->
            Did(f.exc, TRUE, NoBody, TRUE, key, f.net, "none", f.file)
      [] OTHER ->
            Did("none", TRUE, NoBody, TRUE, key, f.net, f.exc, f.file)

\* the query parameters the call builds
CallParams(a) ==
    Build(VideoRequestParams(a.game_id, StrOrNone(a.player_id), StrOrNone(a.team_id),
                             a.context_measure, DefaultSeason, DefaultSeasonType))

\* the function's body, under the environment's outcome o
Body(a, o) ==
    LET b == CallParams(a)
        key == CacheKey(a)
    IN  CASE b.exc # "none" -> CaughtEarly(b.exc)
          [] key.exc # "none" -> CaughtEarly(key.exc)
          [] o = "mkdir_fails" -> CaughtEarly("OSError")
          [] OTHER -> Except(FetchData(b.val, key.val, Interval, o), key.val)

-----------------------------------------------------------------------------
(* @lru_cache(maxsize=100) *)

maxsize == 100

ArgsHashable(a) ==
    /\ Hashable(a.game_id)
    /\ Hashable(a.context_measure)
    /\ Hashable(a.player_id)
    /\ Hashable(a.team_id)

\* a variant of MemoIndex that takes a memoized None for a miss
MemoIndexSkippingNone(a) ==
    IF \E k \in 1..Len(memo) : memo[k].args = a /\ ~memo[k].isNone
    THEN CHOOSE k \in 1..Len(memo) : memo[k].args = a /\ ~memo[k].isNone
    ELSE 0

\* the place of a's entry in the memo, 0 when it has none
MemoIndex(a) ==
    IF \E k \in 1..Len(memo) : memo[k].args = a
    THEN CHOOSE k \in 1..Len(memo) : memo[k].args = a
    ELSE 0

Without(seq, k) == SubSeq(seq, 1, k - 1) \o SubSeq(seq, k + 1, Len(seq))

\* a hit makes the entry the most recently used
Touch(k) == Without(memo, k) \o <<memo[k]>>

\* a variant of Insert that never evicts
InsertUnbounded(e) == memo \o <<e>>

\* a variant of Insert that keeps no None result
InsertUnlessNone(e) ==
    IF e.isNone THEN memo
    ELSE IF Len(memo) >= maxsize THEN Tail(memo) \o <<e>> ELSE memo \o <<e>>

\* a miss stores the result; a full cache drops its least recently used entry
Insert(e) ==
    IF Len(memo) >= maxsize THEN Tail(memo) \o <<e>> ELSE memo \o <<e>>

\* the tuples a change of the memo from m to m2 dropped
Dropped(m, m2) ==
    {m[k].args : k \in 1..Len(m)} \ {m2[k].args : k \in 1..Len(m2)}

NoArgs == CallArgs(PyNone, PyNone, PyNone, PyNone)

NoCall ==
    [op |-> "none", n |-> 0, args |-> NoArgs, at |-> 0, again |-> FALSE,
     hit |-> FALSE, exc |-> "none", isNone |-> TRUE, val |-> NoBody,
     fetched |-> FALSE, key |-> <<>>, net |-> FALSE, logged |-> "none",
     evicted |-> {}]

\* the record of a call that did d; again: the operation before it was a
\* call with the same arguments
Called(a, hit, d, evicted) ==
    [op |-> "call", n |-> 1 - last.n, args |-> a, at |-> now,
     again |-> (last.op = "call" /\ last.args = a),
     hit |-> hit, exc |-> d.exc, isNone |-> d.isNone, val |-> d.val,
     fetched |-> d.fetched, key |-> d.key, net |-> d.net, logged |-> d.logged,
     evicted |-> evicted]

\* get_game_videos_raw(game_id, context_measure, player_id, team_id) through
\* its lru_cache wrapper, under the environment's outcome o
Call(a, o) ==
    IF ~ArgsHashable(a)
    THEN \* the wrapper cannot hash the key: TypeError, the body never runs
         /\ last' = Called(a, FALSE,
                           Did("TypeError", TRUE, NoBody, FALSE, <<>>, FALSE, "none", file),
                           {})
         /\ UNCHANGED <<memo, file, failed, sinceClear>>
    ELSE IF MemoIndex(a) # 0
    THEN LET e == memo[MemoIndex(a)]
         IN  /\ memo' = Touch(MemoIndex(a))
             /\ last' = Called(a, TRUE,
                               Did("none", e.isNone, e.val, FALSE, <<>>, FALSE, "none", file),
                               {})
             /\ UNCHANGED <<file, failed, sinceClear>>
    ELSE LET d == Body(a, o)
         IN  /\ file' = d.file
             /\ IF d.exc # "none"
                THEN /\ last' = Called(a, FALSE, d, {})
                     /\ UNCHANGED <<memo, failed, sinceClear>>
                ELSE LET m2 == Insert([args |-> a, isNone |-> d.isNone, val |-> d.val])
                     IN  /\ memo' = m2
                         /\ last' = Called(a, FALSE, d, Dropped(memo, m2))
                         /\ sinceClear' = sinceClear \cup {a}
                         /\ failed' = IF d.isNone /\ d.fetched
                                      THEN (failed \ Dropped(memo, m2)) \cup {a}
                                      ELSE failed \ Dropped(memo, m2)

\* get_game_videos_raw.cache_clear()
ClearMemo ==
    /\ memo' = <<>>
    /\ failed' = {}
    /\ sinceClear' = {}
    /\ last' = [NoCall EXCEPT !.op = "cache_clear", !.n = 1 - last.n, !.at = now]
    /\ UNCHANGED <<req, built, keyArgs, keyOut, fs, cfgIn, cfgOut, file, now,
                   called, scanned>>

-----------------------------------------------------------------------------
(* The clock *)

\* how many cache durations the clock runs for
MaxTicks == 1

\* time passes: one cache duration, or a second more
Advance ==
    \E d \in {Interval, Interval + 1} :
        /\ now + d <= MaxTicks * (Interval + 1)
        /\ now' = now + d
        /\ UNCHANGED <<req, built, keyArgs, keyOut, fs, cfgIn, cfgOut, memo, file,
                       called, scanned, failed, sinceClear, last>>

-----------------------------------------------------------------------------
(* The fetcher under a few argument tuples *)

\* how many distinct argument tuples one behaviour calls with
MaxDistinct == 2

S_x == <<"x">>

\* the tuples called with: a player id, the same number as a team id, a
\* non-numeric player id, a list as player id
FetchArgs ==
    {CallArgs(PyStr(S_video1), FGM, PyInt(201939), PyNone),
     CallArgs(PyStr(S_video1), FGM, PyNone, PyInt(201939)),
     CallArgs(PyStr(S_video1), FGM, PyStr(S_x), PyNone),
     CallArgs(PyStr(S_video1), FGM, PyList(1), PyNone)}

\* what the environment may do to a call with a: nothing that matters
\* unless the body runs
OutcomesOf(a) ==
    IF ArgsHashable(a) /\ MemoIndex(a) = 0 THEN Outcomes ELSE {"ok"}

Fetch ==
    \E a \in FetchArgs :
      \E o \in OutcomesOf(a) :
        /\ a \in called \/ Cardinality(called) < MaxDistinct
        /\ Call(a, o)
        /\ called' = called \cup {a}
        /\ UNCHANGED <<req, built, keyArgs, keyOut, fs, cfgIn, cfgOut, now, scanned>>

Next == Fetch \/ ClearMemo \/ Advance

-----------------------------------------------------------------------------
(* The fetcher under a scan of many games *)

\* how many games the scan fetches
MaxScan == 101

\* the k-th game of the scan, fetched with the default measure and no ids
ScanArgs(k) == CallArgs(PyStr(StrOfNat(k)), FGM, PyNone, PyNone)

\* the game fetched before the scan and again at its end
HotArgs == CallArgs(PyStr(S_video1), FGM, PyNone, PyNone)

ScanDone == scanned >= maxsize

Scan ==
    /\ scanned < MaxScan
    /\ Call(ScanArgs(scanned + 1), "ok")
    /\ scanned' = scanned + 1
    /\ UNCHANGED <<req, built, keyArgs, keyOut, fs, cfgIn, cfgOut, now, called>>

FetchHot ==
    /\ scanned = 0 \/ scanned >= maxsize - 1
    /\ \E o \in OutcomesOf(HotArgs) : Call(HotArgs, o)
    /\ UNCHANGED <<req, built, keyArgs, keyOut, fs, cfgIn, cfgOut, now, called, scanned>>

NextLRU ==
    \/ Scan
    \/ FetchHot
    \/ ScanDone /\ ClearMemo
    \/ ScanDone /\ Advance

-----------------------------------------------------------------------------
(* The cache key over many argument tuples *)

KeyGameIds == {PyStr(S_video1), EmptyStr}

KeyMeasures == {FGM, FG3M, PyNone}

\* ids: absent, zero, an int, the same id as a str, the empty str
KeyIds == {PyNone, PyInt(0), PyInt(201939), PyStr(S_201939), EmptyStr}

\* lines 133-148 of get_game_videos_raw, for one argument tuple
ComputeKey ==
    \E g \in KeyGameIds, m \in KeyMeasures, p \in KeyIds, t \in KeyIds :
        /\ keyArgs' = CallArgs(g, m, p, t)
        /\ keyOut' = CacheKey(CallArgs(g, m, p, t))
        /\ UNCHANGED <<req, built, fs, cfgIn, cfgOut, memo, file, now,
                       called, scanned, failed, sinceClear, last>>

NextKey == ComputeKey

-----------------------------------------------------------------------------
(* VideoRequestConfig *)

\* a pathlib.Path, as the sequence of its parts
PyPath(parts) == [t |-> "path", i |-> 0, s |-> parts]

DefaultCachePath == <<"data", "cache">>

\* the paths of the filesystem modelled
FsPaths ==
    {<<"data">>, <<"data", "cache">>, <<"data", "new">>, <<"x">>, <<"x", "y">>,
     <<"f">>, <<"f", "sub">>}

\* the proper ancestors of a path
Parents(parts) == {SubSeq(parts, 1, k) : k \in 1..(Len(parts) - 1)}

\* Path(parts).mkdir(parents=True, exist_ok=True); o says whether the
\* process may create directories
Mkdir(parts, o) ==
    CASE fs[parts] = "dir" -> [exc |-> "none", fs |-> fs]
      [] fs[parts] = "file" -> [exc |-> "FileExistsError", fs |-> fs]
      [] \E q \in Parents(parts) : fs[q] = "file" ->
            [exc |-> "NotADirectoryError", fs |-> fs]
      [] o = "denied" -> [exc |-> "PermissionError", fs |-> fs]
      [] OTHER ->
            [exc |-> "none",
             fs |-> [q \in FsPaths |->
                        IF q = parts \/ q \in Parents(parts) THEN "dir" ELSE fs[q]]]

\* a variant of DurationOk that also wants the duration positive
DurationPositive(d) == d.t = "timedelta" /\ d.i > 0

\* isinstance(CACHE_DURATION, timedelta)
DurationOk(d) == d.t = "timedelta"

\* VideoRequestConfig.__post_init__ on the fields given: the path is made a
\* Path, the directory made, then the duration's type checked
PostInit(path, duration, o) ==
    LET p == IF path.t = "path" THEN path ELSE PyPath(path.s)
        m == Mkdir(p.s, o)
    IN  CASE m.exc # "none" ->
                [out |-> [exc |-> m.exc, CACHE_PATH |-> PyNone, CACHE_DURATION |-> PyNone],
                 fs |-> m.fs]
          [] ~DurationOk(duration) ->
                [out |-> [exc |-> "ValueError", CACHE_PATH |-> PyNone,
                          CACHE_DURATION |-> PyNone],
                 fs |-> m.fs]
          [] OTHER ->
                [out |-> [exc |-> "none", CACHE_PATH |-> p, CACHE_DURATION |-> duration],
                 fs |-> m.fs]

\* the cache directories configurations are constructed with, given as a
\* Path or as a str (here the str's text is kept as the path's parts)
ConfigPaths ==
    {[t |-> k, i |-> 0, s |-> parts] :
        k \in {"path", "str"},
        parts \in {DefaultCachePath, <<"data", "new">>, <<"x", "y">>, <<"f">>, <<"f", "sub">>}}

\* the cache durations: timedeltas (positive, zero, negative), an int, None
ConfigDurations ==
    {PyTimedelta(DefaultCacheSeconds), PyTimedelta(1), PyTimedelta(0), PyTimedelta(-1),
     PyInt(DefaultCacheSeconds), PyNone}

\* VideoRequestConfig(CACHE_PATH=path, CACHE_DURATION=duration)
NewConfig ==
    \E path \in ConfigPaths, duration \in ConfigDurations, o \in {"ok", "denied"} :
        /\ cfgIn' = [CACHE_PATH |-> path, CACHE_DURATION |-> duration]
        /\ cfgOut' = PostInit(path, duration, o).out
        /\ fs' = PostInit(path, duration, o).fs
        /\ UNCHANGED <<req, built, keyArgs, keyOut, memo, file, now,
                       called, scanned, failed, sinceClear, last>>

NextConfig == NewConfig

-----------------------------------------------------------------------------
Init ==
    /\ req = NoReq
    /\ built = NotBuilt
    /\ keyArgs = NoArgs
    /\ keyOut = [exc |-> "unset", val |-> <<>>]
    /\ fs = [q \in FsPaths |->
                CASE q \in {<<"data">>, DefaultCachePath} -> "dir"
                  [] q = <<"f">> -> "file"
                  [] OTHER -> "absent"]
    /\ cfgIn = [CACHE_PATH |-> PyPath(DefaultCachePath),
                 CACHE_DURATION |-> PyTimedelta(DefaultCacheSeconds)]
    /\ cfgOut = [exc |-> "none", CACHE_PATH |-> PyPath(DefaultCachePath),
                  CACHE_DURATION |-> PyTimedelta(DefaultCacheSeconds)]
    /\ memo = <<>>
    /\ file = <<>>
    /\ now = 0
    /\ called = {}
    /\ scanned = 0
    /\ failed = {}
    /\ sinceClear = {}
    /\ last = NoCall

Spec == Init /\ [][Next]_vars

SpecBuild == Init /\ [][NextBuild]_vars

SpecConfig == Init /\ [][NextConfig]_vars

SpecKey == Init /\ [][NextKey]_vars

SpecLRU == Init /\ [][NextLRU]_vars

-----------------------------------------------------------------------------
(* The properties of VideoRequestParams.build(), under SpecBuild *)

BuildKeys ==
    {"LeagueID", "Season", "SeasonType", "TeamID", "PlayerID", "GameID",
     "ContextMeasure", "Outcome", "Location", "Month", "SeasonSegment", "DateFrom",
     "DateTo", "OpponentTeamID", "VsConference", "VsDivision", "Position",
     "RookieYear", "GameSegment", "Period", "LastNGames", "ClutchTime",
     "AheadBehind", "PointDiff", "RangeType", "StartPeriod", "EndPeriod",
     "StartRange", "EndRange", "ContextFilter", "OppPlayerID"}

IntKeys ==
    {"TeamID", "PlayerID", "Month", "OpponentTeamID", "Period", "LastNGames",
     "RangeType", "StartPeriod", "EndPeriod", "StartRange", "EndRange"}

\* the request holds ids that are absent, empty or numeric, and a measure
ValidRequest ==
    /\ req # NoReq
    /\ req.player_id \in {PyNone, EmptyStr, PyStr(S_201939), PyStr(S_007)}
    /\ req.team_id \in {PyNone, EmptyStr, PyStr(S_201939), PyStr(S_007)}
    /\ req.context_measure \in ContextMeasure

\* C5, as the spec states it: every mapping build() returns has exactly 29
\* keys, ints for the numeric fields and strings elsewhere.
C5_Stated ==
    built.exc = "none" =>
        /\ Cardinality(DOMAIN built.val) = 29
        /\ \A k \in DOMAIN built.val :
              built.val[k].t = IF k \in IntKeys THEN "int" ELSE "str"

\* C5, amended: build() succeeds on every valid request, and every mapping
\* it returns has exactly the 31 keys of the dict display, with an int for
\* each of the 11 numeric fields and a str for each of the other 20.
C5_BuildShape ==
    /\ (ValidRequest /\ built # NotBuilt) => built.exc = "none"
    /\ built.exc = "none" =>
          /\ DOMAIN built.val = BuildKeys
          /\ Cardinality(DOMAIN built.val) = 31
          /\ Cardinality(IntKeys) = 11
          /\ \A k \in DOMAIN built.val :
                built.val[k].t = IF k \in IntKeys THEN "int" ELSE "str"

C5_Witness ==
    /\ built.exc = "none"
    /\ req.team_id = PyStr(S_201939)
    /\ req.player_id = PyNone
    /\ req.game_id = PyStr(S_video1)

\* int(id) of the numeric ids the requests are built with
IntExpected(id) ==
    CASE id = PyStr(S_201939) -> 201939
      [] id = PyStr(S_007) -> 7
      [] OTHER -> 0

\* C6: in the mapping build() returns, TeamID (PlayerID) is 0 when team_id
\* (player_id) is None or the empty string and int(id) for a numeric-string
\* id, and neither field changes when only the other id changes.
C6_IdFields ==
    built.exc = "none" =>
        /\ built.val.TeamID = PyInt(IntExpected(req.team_id))
        /\ built.val.PlayerID = PyInt(IntExpected(req.player_id))
        /\ req.team_id \in {PyNone, EmptyStr} => built.val.TeamID = PyInt(0)
        /\ req.player_id \in {PyNone, EmptyStr} => built.val.PlayerID = PyInt(0)
        /\ \A other \in {PyNone, EmptyStr, PyStr(S_201939), PyStr(S_007)} :
              /\ Build([req EXCEPT !.player_id = other]).val.TeamID = built.val.TeamID
              /\ Build([req EXCEPT !.team_id = other]).val.PlayerID = built.val.PlayerID

C6_Witness ==
    /\ built.exc = "none"
    /\ req.team_id = PyStr(S_007)
    /\ req.player_id = EmptyStr
    /\ built.val.TeamID = PyInt(7)
    /\ built.val.PlayerID = PyInt(0)

-----------------------------------------------------------------------------
(* The property of the cache key, under SpecKey *)

\* str(v) of the values the key is computed from
TextExpected(v) ==
    CASE v = PyInt(201939) -> S_201939
      [] v = PyInt(0) -> <<"0">>
      [] OTHER -> v.s

\* "_" and the part's text if the part is kept, nothing otherwise
Suffix(kept, v) == IF kept THEN <<"_">> \o TextExpected(v) ELSE <<>>

\* C7, as the spec states it: the key is the `_`-join of the parts of
\* ["video", game_id, player_id, team_id, context_measure.value] that are
\* not None, every other part appearing (for a non-empty game_id
\* and ids that are not empty strings).
C7_Stated ==
    (/\ keyOut.exc = "none"
     /\ EmptyStr \notin {keyArgs.game_id, keyArgs.player_id, keyArgs.team_id}) =>
        keyOut.val = S_video
                        \o Suffix(keyArgs.game_id # PyNone, keyArgs.game_id)
                        \o Suffix(keyArgs.player_id # PyNone, keyArgs.player_id)
                        \o Suffix(keyArgs.team_id # PyNone, keyArgs.team_id)
                        \o Suffix(TRUE, keyArgs.context_measure)

\* a part that is None, the int 0 or the empty string
Falsy(v) == v \in {PyNone, PyInt(0), EmptyStr}

\* C7, amended: the key is the `_`-join, in this order, of the parts of
\* ["video", game_id, player_id, team_id, context_measure.value] that are
\* neither None nor 0 nor the empty string; ("video1", None, None, FGM)
\* gives "video_video1_FGM" and ("video1", "201939", None, FG3M) gives
\* "video_video1_201939_FG3M".
C7_KeyJoin ==
    /\ keyOut.exc = "none" =>
          keyOut.val = S_video
                          \o Suffix(~Falsy(keyArgs.game_id), keyArgs.game_id)
                          \o Suffix(~Falsy(keyArgs.player_id), keyArgs.player_id)
                          \o Suffix(~Falsy(keyArgs.team_id), keyArgs.team_id)
                          \o Suffix(TRUE, keyArgs.context_measure)
    /\ keyArgs = CallArgs(PyStr(S_video1), FGM, PyNone, PyNone) =>
          keyOut = [exc |-> "none",
                    val |-> <<"v", "i", "d", "e", "o", "_", "v", "i", "d", "e", "o", "1",
                              "_", "F", "G", "M">>]
    /\ keyArgs = CallArgs(PyStr(S_video1), FG3M, PyStr(S_201939), PyNone) =>
          keyOut = [exc |-> "none",
                    val |-> <<"v", "i", "d", "e", "o", "_", "v", "i", "d", "e", "o", "1",
                              "_", "2", "0", "1", "9", "3", "9", "_", "F", "G", "3", "M">>]

C7_Witness ==
    /\ keyArgs = CallArgs(PyStr(S_video1), FGM, PyInt(0), PyInt(201939))
    /\ keyOut.exc = "none"
    /\ keyOut.val = <<"v", "i", "d", "e", "o", "_", "v", "i", "d", "e", "o", "1",
                       "_", "2", "0", "1", "9", "3", "9", "_", "F", "G", "M">>

-----------------------------------------------------------------------------
(* The property of VideoRequestConfig, under SpecConfig *)

\* C8, as the spec states it: construction succeeds only when the cache
\* duration is a positive duration, and after a successful construction the
\* cache directory exists.
C8_Stated ==
    cfgOut.exc = "none" =>
        /\ cfgIn.CACHE_DURATION.t = "timedelta"
        /\ cfgIn.CACHE_DURATION.i > 0
        /\ fs[cfgIn.CACHE_PATH.s] = "dir"

\* C8, amended: construction succeeds exactly when the cache directory
\* exists or could be made and the cache duration is a timedelta, of any
\* sign; a duration that is no timedelta fails with ValueError once the
\* directory is there. After a successful construction the cache directory
\* exists and CACHE_PATH is a Path.
C8_ConfigValid ==
    /\ cfgOut.exc = "none" <=>
          (cfgIn.CACHE_DURATION.t = "timedelta" /\ fs[cfgIn.CACHE_PATH.s] = "dir")
    /\ (cfgIn.CACHE_DURATION.t # "timedelta" /\ fs[cfgIn.CACHE_PATH.s] = "dir")
          => cfgOut.exc = "ValueError"
    /\ cfgOut.exc = "none" =>
          /\ cfgOut.CACHE_PATH = PyPath(cfgIn.CACHE_PATH.s)
          /\ cfgOut.CACHE_DURATION = cfgIn.CACHE_DURATION

C8_Witness ==
    /\ cfgOut.exc = "none"
    /\ cfgIn.CACHE_DURATION = PyTimedelta(-1)
    /\ cfgIn.CACHE_PATH = PyStr(<<"x", "y">>)
    /\ fs[<<"x", "y">>] = "dir"

-----------------------------------------------------------------------------
(* The properties of get_game_videos_raw under a few tuples, under Spec *)

\* the step is a call of get_game_videos_raw
CallStep == last'.n # last.n /\ last'.op = "call"

\* the step is a cache_clear()
ClearStep == last'.n # last.n /\ last'.op = "cache_clear"

\* a has an entry in memo m
InMemo(m, a) == \E k \in 1..Len(m) : m[k].args = a

\* C1, as the spec states it: whatever the arguments and whatever the
\* transport does, the caller never observes an exception from the call.
C1_Stated == last.op = "call" => last.exc = "none"

\* C1, amended: every Exception raised while building the parameters,
\* resolving the cache path or fetching is logged and turned into a None
\* return; the caller sees an exception only when an argument is
\* unhashable (TypeError from the memo wrapper, the body never runs) or
\* when a BaseException that is no Exception (KeyboardInterrupt) arrives
\* during the fetch.
C1_ExceptionsCaught ==
    last.op = "call" =>
        /\ last.logged # "none" => (last.exc = "none" /\ last.isNone)
        /\ last.exc # "none" =>
              \/ last.exc = "TypeError" /\ ~ArgsHashable(last.args) /\ ~last.fetched
              \/ last.exc = "KeyboardInterrupt" /\ last.fetched /\ last.net
        /\ (ArgsHashable(last.args) /\ last.exc # "KeyboardInterrupt")
              => last.exc = "none"
        /\ (last.args.player_id = PyStr(S_x) /\ ~last.hit) => last.logged = "ValueError"

C1_Witness ==
    /\ last.op = "call"
    /\ last.logged = "Exception"
    /\ last.fetched
    /\ last.net
    /\ last.exc = "none"
    /\ last.isNone

\* C2: of two consecutive calls with identical arguments made within the
\* cache TTL, the first having returned, the second returns the same
\* payload and calls no network.
C2_Idempotent ==
    [][(/\ CallStep
        /\ last.op = "call"
        /\ last.exc = "none"
        /\ last'.args = last.args
        /\ last'.at - last.at <= Interval)
       => (/\ last'.exc = "none"
           /\ last'.isNone = last.isNone
           /\ last'.val = last.val
           /\ ~last'.net)]_vars

C2_Witness ==
    /\ last.op = "call"
    /\ last.again
    /\ last.exc = "none"
    /\ ~last.isNone
    /\ ~last.net
    /\ last.at - last.val.at = Interval

\* C9: once a call has returned None for a tuple because its fetch raised,
\* every later call with that tuple returns None without invoking the
\* transport, as long as the entry is neither evicted nor the memo cleared.
C9_FailureMemoized ==
    [][(CallStep /\ last'.args \in failed)
       => (/\ last'.exc = "none"
           /\ last'.isNone
           /\ last'.hit
           /\ ~last'.fetched
           /\ ~last'.net
           /\ last'.args \in failed')]_vars

\* a failed tuple is called again and answered None from the memo while
\* the cache file holds a fresh entry of its key
C9_Witness ==
    /\ last.op = "call"
    /\ last.args \in failed
    /\ last.hit
    /\ last.isNone
    /\ FileFresh(CacheKey(last.args).val, Interval)

\* the fields of the query that vary from call to call
Query(params) == <<params.GameID, params.PlayerID, params.TeamID, params.ContextMeasure>>

\* C10: two calls whose built query parameters differ pass different cache
\* keys to the transport, so that a payload a call returns was fetched
\* with that call's query parameters.
C10_KeyIdentifiesRequest ==
    /\ \A a, b \in called :
          (/\ ArgsHashable(a) /\ ArgsHashable(b)
           /\ CallParams(a).exc = "none" /\ CallParams(b).exc = "none"
           /\ Query(CallParams(a).val) # Query(CallParams(b).val))
          => CacheKey(a).val # CacheKey(b).val
    /\ (last.op = "call" /\ last.exc = "none" /\ ~last.isNone)
          => last.val.q = Query(CallParams(last.args).val)

-----------------------------------------------------------------------------
(* The properties of the memo under a scan of many games, under SpecLRU *)

\* the cache file holds an entry of a's key that is older than the TTL
FileExpired(a) ==
    /\ CacheKey(a).exc = "none"
    /\ CacheKey(a).val \in DOMAIN file
    /\ now - file[CacheKey(a).val].ts > Interval

\* C3, as the spec states it: once the file-cache TTL of a key has expired,
\* a call with the same arguments calls the network if the memo has been
\* cleared since the tuple was memoized, and returns the stale memoized
\* value without a network call if the memo has not been cleared.
C3_Stated ==
    [][(CallStep /\ FileExpired(last'.args))
       => IF last'.args \in sinceClear
          THEN last'.hit /\ ~last'.net
          ELSE last'.net]_vars

\* C3, amended: once the file-cache TTL of a key has expired, a call whose
\* tuple is still in the memo (neither cleared nor evicted by 100 later
\* tuples) returns the stale memoized value and calls neither the transport
\* nor the network; a call whose tuple is no longer in the memo reaches the
\* transport, which calls the network, unless making the cache directory
\* fails first (then it returns None).
C3_ExpiredEntry ==
    [][(CallStep /\ FileExpired(last'.args))
       => IF InMemo(memo, last'.args)
          THEN /\ last'.hit
               /\ last'.exc = "none"
               /\ ~last'.fetched
               /\ ~last'.net
               /\ \E k \in 1..Len(memo) :
                     /\ memo[k].args = last'.args
                     /\ memo[k].isNone = last'.isNone
                     /\ memo[k].val = last'.val
          ELSE \/ last'.fetched /\ last'.net
               \/ last'.logged = "OSError" /\ last'.isNone /\ ~last'.net]_vars

\* a payload fetched more than a TTL ago is returned from the memo
C3_Witness ==
    /\ last.op = "call"
    /\ last.hit
    /\ ~last.isNone
    /\ last.at - last.val.at > Interval
    /\ FileExpired(last.args)

\* C4: the memo never holds more than 100 entries; a step other than a
\* cache_clear() removes an entry only when a call with a new tuple finds
\* the memo full, and then exactly the least recently used one, never the
\* tuple of the call before; the passing of time removes none; and a call
\* whose tuple is in the memo is answered from it, without the transport
\* and without touching the cache file.
C4_BoundedLRU ==
    [][/\ Len(memo') <= 100
       /\ ~ClearStep =>
             \/ Dropped(memo, memo') = {}
             \/ /\ CallStep
                /\ ~InMemo(memo, last'.args)
                /\ Len(memo) = 100
                /\ Dropped(memo, memo') = {memo[1].args}
                /\ last'.evicted = {memo[1].args}
                /\ (last.op = "call" /\ last.exc = "none") => memo[1].args # last.args
       /\ (CallStep /\ InMemo(memo, last'.args)) =>
             /\ last'.hit
             /\ ~last'.fetched
             /\ ~last'.net
             /\ file' = file
             /\ InMemo(memo', last'.args)
             /\ memo'[Len(memo')].args = last'.args]_vars

\* the 101st tuple has pushed out the least recently used of a full memo
\* in which the first tuple called had been used again
C4_Witness ==
    /\ Len(memo) = 100
    /\ last.op = "call"
    /\ last.evicted = {ScanArgs(1)}
    /\ InMemo(memo, HotArgs)

====
